---- MODULE Spec2Model ----
(***************************************************************************)
(* Model of BoardsServiceProvider (boards-service-provider.ts): the        *)
(* board/port reconciliation engine of the Arduino IDE.                    *)
(*                                                                         *)
(* Values.  JavaScript `undefined` is the string Undef for a string field, *)
(* the record NoPort for a port, the record NoBoard for a board, and the   *)
(* empty sequence for an optional configuration (<<c>> when present).      *)
(* A board is one record type for Board, BoardWithPackage and              *)
(* AvailableBoard: the fields a plain Board does not have are Undef.       *)
(***************************************************************************)
EXTENDS Integers, Sequences, FiniteSets, TLC

Undef == "undefined"

NoPort == [protocol |-> Undef, address |-> Undef]

MkPort(protocol, address) == [protocol |-> protocol, address |-> address]

MkBoard(name, fqbn, packageId, port, state, selected) ==
  [name |-> name, fqbn |-> fqbn, packageId |-> packageId, port |-> port,
   state |-> state, selected |-> selected]

NoBoard == MkBoard(Undef, Undef, Undef, NoPort, Undef, Undef)

\* A plain Board {name, fqbn?}.
PlainBoard(name, fqbn) == MkBoard(name, fqbn, Undef, NoPort, Undef, Undef)

\* A Board as discovery reports it: {name, fqbn, port}.
AttachedBoard(name, fqbn, port) == MkBoard(name, fqbn, Undef, port, Undef, Undef)

MkConfig(selectedBoard, selectedPort) ==
  [selectedBoard |-> selectedBoard, selectedPort |-> selectedPort]

\* `{}`: the configuration the engine is constructed with.
EmptyConfig == MkConfig(NoBoard, NoPort)

None == << >>

Some(x) == << x >>

\* AvailableBoard.State is a numeric enum: recognized < guessed < incomplete.
recognized == 0

guessed == 1

incomplete == 2

StateRank(state) ==
  CASE state = "recognized" -> recognized
    [] state = "guessed" -> guessed
    [] state = "incomplete" -> incomplete

(***************************************************************************)
(* Value predicates of common/protocol and boards-config.                  *)
(***************************************************************************)
\* Port.sameAs: both ports present, address and protocol equal.
PortSameAs(left, right) ==
  /\ left # NoPort
  /\ right # NoPort
  /\ left.address = right.address
  /\ left.protocol = right.protocol

\* Board.equals: name and fqbn equal (an absent fqbn equals an absent one).
BoardEquals(left, right) == left.name = right.name /\ left.fqbn = right.fqbn

\* Board.sameAs: the exact equality rule on name and fqbn.
BoardSameAs(left, right) == left.name = right.name /\ left.fqbn = right.fqbn

\* BoardsConfig.Config.sameAs(config, board): the board equals the selected
\* board and the port the board carries is the selected port.
ConfigSameAs(config, other) ==
  /\ config.selectedBoard # NoBoard
  /\ BoardEquals(other, config.selectedBoard)
  /\ PortSameAs(config.selectedPort, other.port)

\* AvailableBoard.is: a board that has a `state` field.
AvailableBoardIs(board) == board # NoBoard /\ board.state # Undef

\* BoardWithPackage.is: a board that has a `packageId` field.
BoardWithPackageIs(board) == board # NoBoard /\ board.packageId # Undef

(***************************************************************************)
(* naturalCompare (string-natural-compare, case-insensitive): a string is  *)
(* split into its letters and its number; letters compare alphabetically,  *)
(* numbers by value.  An absent address is the string "undefined".         *)
(***************************************************************************)
\* Rank of the lower-cased letter chunk among the letter chunks in use.
AlphaRank(address) ==
  CASE address = "COM5" -> 1
    [] address = "COM10" -> 1
    [] address = "COM7" -> 1
    [] address = "tty3" -> 2
    [] address = Undef -> 3
    [] address = "usb1" -> 4

NumberChunk(address) ==
  CASE address = "COM5" -> 5
    [] address = "COM10" -> 10
    [] address = "COM7" -> 7
    [] address = "tty3" -> 3
    [] address = Undef -> 0
    [] address = "usb1" -> 1

Sign(n) == IF n < 0 THEN -1 ELSE IF n > 0 THEN 1 ELSE 0

naturalCompare(left, right) ==
  IF AlphaRank(left) # AlphaRank(right)
    THEN Sign(AlphaRank(left) - AlphaRank(right))
    ELSE Sign(NumberChunk(left) - NumberChunk(right))

\* AvailableBoard.compare.
AvailableBoardCompare(left, right) ==
  IF left.port.protocol = "serial" /\ right.port.protocol # "serial" THEN -1
  ELSE IF left.port.protocol # "serial" /\ right.port.protocol = "serial" THEN 1
  ELSE IF left.port.protocol = "network" /\ right.port.protocol # "network" THEN -1
  ELSE IF left.port.protocol # "network" /\ right.port.protocol = "network" THEN 1
  ELSE IF /\ left.port.protocol = right.port.protocol
          /\ StateRank(left.state) < StateRank(right.state) THEN -1
  ELSE IF /\ left.port.protocol = right.port.protocol
          /\ StateRank(left.state) > StateRank(right.state) THEN 1
  ELSE naturalCompare(left.port.address, right.port.address)

\* Array.prototype.sort with a comparator is stable: each element goes after
\* the elements already placed that do not compare greater than it.
RECURSIVE InsertSorted(_, _)
InsertSorted(sorted, x) ==
  IF sorted = << >> THEN << x >>
  ELSE IF AvailableBoardCompare(x, sorted[Len(sorted)]) < 0
    THEN Append(InsertSorted(SubSeq(sorted, 1, Len(sorted) - 1), x),
                sorted[Len(sorted)])
    ELSE Append(sorted, x)

RECURSIVE SortBoards(_)
SortBoards(boards) ==
  IF boards = << >> THEN << >>
  ELSE InsertSorted(SortBoards(SubSeq(boards, 1, Len(boards) - 1)),
                    boards[Len(boards)])

\* canVerify: the configuration has a board.
canVerify(config) == config.selectedBoard # NoBoard

\* canUploadTo: canVerify, a port, and a non-empty fqbn.
canUploadTo(config) ==
  /\ canVerify(config)
  /\ config.selectedPort # NoPort
  /\ config.selectedBoard.fqbn \notin {Undef, ""}

\* getLastSelectedBoardOnPortKey: the key drops the port's protocol.
getLastSelectedBoardOnPortKey(port) == port.address


(***************************************************************************)
(* The pieces of reconcileAvailableBoards.                                 *)
(***************************************************************************)
Min(S) == CHOOSE x \in S : \A y \in S : x <= y

BoolStr(b) == IF b THEN "true" ELSE "false"

\* The selected port is set and no available port is the same port.
SelectedPortGone(config, ports) ==
  /\ config.selectedPort # NoPort
  /\ ~ \E i \in 1..Len(ports) : PortSameAs(ports[i], config.selectedPort)

\* this._attachedBoards.filter(({ port }) => !!port)
BoardsWithPort(boards) == SelectSeq(boards, LAMBDA b : b.port # NoPort)

\* Every serial port; any other port only if an attached board has its address.
availableBoardPorts(ports, attached) ==
  SelectSeq(ports, LAMBDA port :
    \/ port.protocol = "serial"
    \/ \E i \in 1..Len(attached) : attached[i].port.address = port.address)

\* attachedBoards.find(({ port }) => Port.sameAs(boardPort, port))
FindAttached(attached, boardPort) ==
  LET idx == {i \in 1..Len(attached) : PortSameAs(boardPort, attached[i].port)}
  IN IF idx = {} THEN NoBoard ELSE attached[Min(idx)]

\* Mutant of ResolveEntry: the remembered board is not used.
ResolveEntryNoGuess(boardPort, attached, lastSelectedBoard, config) ==
  LET board == FindAttached(attached, boardPort)
  IN IF board # NoBoard
       THEN [board EXCEPT !.state = "recognized",
                          !.selected = BoolStr(ConfigSameAs(config, board)),
                          !.port = boardPort]
     ELSE MkBoard("Unknown", Undef, Undef, boardPort, "incomplete", Undef)

\* The body of the loop over the candidate ports, after the store answered
\* with lastSelectedBoard (None or Some(board)).
ResolveEntry(boardPort, attached, lastSelectedBoard, config) ==
  LET board == FindAttached(attached, boardPort)
  IN IF board # NoBoard
       THEN [board EXCEPT !.state = "recognized",
                          !.selected = BoolStr(ConfigSameAs(config, board)),
                          !.port = boardPort]
     ELSE IF lastSelectedBoard # None
       THEN [lastSelectedBoard[1] EXCEPT
               !.state = "guessed",
               !.selected = BoolStr(ConfigSameAs(config, lastSelectedBoard[1])),
               !.port = boardPort]
     ELSE MkBoard("Unknown", Undef, Undef, boardPort, "incomplete", Undef)

RemoveAt(seq, i) == SubSeq(seq, 1, i - 1) \o SubSeq(seq, i + 1, Len(seq))

\* A selected board that no entry stands for is pushed as an incomplete,
\* selected entry, after the first entry on the selected port's address is
\* spliced out.
InjectSelected(entries, config) ==
  IF /\ config.selectedBoard # NoBoard
     /\ ~ \E i \in 1..Len(entries) : entries[i].selected = "true"
    THEN LET found == {i \in 1..Len(entries) :
                         entries[i].port.address = config.selectedPort.address}
             kept == IF found = {} THEN entries ELSE RemoveAt(entries, Min(found))
         IN Append(kept, [config.selectedBoard EXCEPT
                            !.port = config.selectedPort,
                            !.selected = "true",
                            !.state = "incomplete"])
    ELSE entries

\* The diff at the end of the pass.
hasChanged(new, current) ==
  \/ Len(new) # Len(current)
  \/ \E i \in 1..Len(new) :
       \/ new[i].fqbn # current[i].fqbn
       \/ AvailableBoardCompare(new[i], current[i]) # 0
       \/ new[i].selected # current[i].selected

\* The configuration the pass works with: the port is cleared when gone.
ConfigOfPass(config, ports) ==
  IF SelectedPortGone(config, ports)
    THEN MkConfig(config.selectedBoard, NoPort)
    ELSE config

\* The list a pass derives when nothing interleaves with it: lastSelected maps
\* an address to the remembered board (None or Some(board)).
DeriveAvailableBoards(attachedAll, ports, lastSelected, config) ==
  LET attached == BoardsWithPort(attachedAll)
      cand == availableBoardPorts(ports, attached)
      cfg == ConfigOfPass(config, ports)
      entries == [i \in 1..Len(cand) |->
                    ResolveEntry(cand[i], attached,
                                 lastSelected[getLastSelectedBoardOnPortKey(cand[i])],
                                 cfg)]
  IN SortBoards(InjectSelected(entries, cfg))

(***************************************************************************)
(* Engine state.                                                           *)
(*                                                                         *)
(* tasks holds the asynchronous work in flight; a task is suspended at an  *)
(* await on the store (or, at startup, on the discovery queries):          *)
(*   kind  "set"   a call of the boardsConfig setter                       *)
(*         "disc"  the pass of notifyAttachedBoardsChanged                 *)
(*         "start" the startup continuation of onStart                     *)
(*   pc    "saveKey"    saveState awaits setData(last-selected key)        *)
(*         "saveCfgs"   saveState awaits the two setData of the configs    *)
(*         "read"       the pass awaits getLastSelectedBoardOnPort         *)
(*         "after"      the pass is done, its then/finally callback is due *)
(*         "loadValid"  loadState awaits getData(latest-valid)             *)
(*         "loadLatest" loadState awaits getData(latest)                   *)
(*         "hydrate"    loadState is done, Promise.all awaits discovery    *)
(*   answer  what the two discovery queries of the startup returned, once  *)
(*           they have (None before; only SpecStart follows the answer)    *)
(* A store call takes effect when it completes; the code behind the await  *)
(* then runs up to its next await in the same step.                        *)
(***************************************************************************)
VARIABLES
  boardsConfig,             \* _boardsConfig
  latestBoardsConfig,       \* _latestBoardsConfig: None or Some(config)
  latestValidBoardsConfig,  \* _latestValidBoardsConfig: None or Some(config)
  attachedBoards,           \* _attachedBoards
  availablePorts,           \* _availablePorts
  availableBoards,          \* _availableBoards
  storage,                  \* the persistent key-value store
  tasks,                    \* asynchronous work in flight
  appState,                 \* "constructed", "started" (onStart ran), "ready"
  reconciled,               \* the _reconciled deferred has resolved
  events,                   \* number of external events so far
  last,                     \* the step just taken: what ran, what it fired
  waits,                    \* the calls of waitUntilAvailable made so far
  derived                   \* the list the last finished pass derived

vars == << boardsConfig, latestBoardsConfig, latestValidBoardsConfig,
           attachedBoards, availablePorts, availableBoards, storage, tasks,
           appState, reconciled, events, last, waits, derived >>

\* The engine's fields as one record, so that a handler is an operator from
\* state to state and handlers compose as calls do.
Engine ==
  [boardsConfig |-> boardsConfig,
   latestBoardsConfig |-> latestBoardsConfig,
   latestValidBoardsConfig |-> latestValidBoardsConfig,
   attachedBoards |-> attachedBoards,
   availablePorts |-> availablePorts,
   availableBoards |-> availableBoards,
   storage |-> storage,
   tasks |-> tasks,
   reconciled |-> reconciled,
   derived |-> derived,
   waits |-> waits,
   fired |-> << >>,
   payload |-> << >>,
   reconnect |-> "no",
   result |-> "void"]

MkTask(kind, pc) ==
  [kind |-> kind, pc |-> pc, key |-> Undef, val |-> NoBoard,
   wValid |-> None, wLatest |-> None, config |-> EmptyConfig,
   current |-> << >>, attached |-> << >>, ports |-> << >>, entries |-> << >>,
   answer |-> None]

(***************************************************************************)
(* waitUntilAvailable.  A call is a record: what it waits for, its timeout *)
(* (None or Some(ms)), the state of the promise it returned ("pending",    *)
(* "resolved", "rejected"), whether its listener is subscribed to          *)
(* onAvailableBoardsChanged, and its timer ("none", "armed", "fired").     *)
(***************************************************************************)
\* find(needle, haystack) of waitUntilAvailable.
FindAvailable(needle, haystack) ==
  \E i \in 1..Len(haystack) :
    /\ BoardEquals(needle, haystack[i])
    /\ PortSameAs(needle.port, haystack[i].port)

\* !!timeout && timeout > 0
HasTimer(timeout) == timeout # None /\ timeout[1] # 0 /\ timeout[1] > 0

\* Mutant of Listener: the port of the board is not compared.
ListenerBoardOnly(wait, list) ==
  IF wait.subscribed /\ \E i \in 1..Len(list) : BoardEquals(wait.what, list[i])
    THEN [wait EXCEPT !.subscribed = FALSE,
                      !.status = IF @ = "pending" THEN "resolved" ELSE @]
    ELSE wait

\* The listener of a call gets the changed list: on a match it disposes its
\* subscription and resolves, which settles the race unless it is settled.
Listener(wait, list) ==
  IF wait.subscribed /\ FindAvailable(wait.what, list)
    THEN [wait EXCEPT !.subscribed = FALSE,
                      !.status = IF @ = "pending" THEN "resolved" ELSE @]
    ELSE wait

\* waitUntilAvailable(what, timeout)
waitUntilAvailable(s, what, timeout) ==
  LET candidate == FindAvailable(what, s.availableBoards)
  IN [s EXCEPT !.waits = Append(@,
        [what |-> what, timeout |-> timeout,
         timer |-> IF HasTimer(timeout) THEN "armed" ELSE "none",
         subscribed |-> ~ candidate,
         status |-> IF candidate THEN "resolved" ELSE "pending"])]

\* The timer of call w fires: the timeout task rejects, which settles the
\* race unless it is settled.
TimeoutElapsed(s, w) ==
  [s EXCEPT !.waits[w].timer = "fired",
            !.waits[w].status = IF @ = "pending" THEN "rejected" ELSE @]

\* emitter.fire(...); payload keeps the configurations the configuration-changed
\* notifications of the step carry.
Fire(s, emitter) ==
  [s EXCEPT !.fired = Append(@, emitter),
            !.payload = IF emitter = "boardsConfig"
                          THEN Append(@, s.boardsConfig) ELSE @,
            !.waits = IF emitter = "availableBoards"
                        THEN [w \in DOMAIN @ |-> Listener(@[w], s.availableBoards)]
                        ELSE @]

\* setBoardsConfig
setBoardsConfig(s, config) ==
  [s EXCEPT !.boardsConfig = config,
            !.latestBoardsConfig = Some(config),
            !.latestValidBoardsConfig =
              IF canUploadTo(config) THEN Some(config) ELSE @]

\* saveState up to its first await: the write of the remembered board when
\* the configuration has a board and a port, else the two config writes.
SaveConfigsTask(s, task) ==
  [task EXCEPT !.pc = "saveCfgs", !.key = Undef, !.val = NoBoard,
               !.wValid = s.latestValidBoardsConfig,
               !.wLatest = s.latestBoardsConfig]

saveState(s) ==
  LET config == s.boardsConfig
      task == MkTask("set", "saveKey")
  IN IF config.selectedBoard # NoBoard /\ config.selectedPort # NoPort
       THEN [s EXCEPT !.tasks = Append(@,
               [task EXCEPT !.key = getLastSelectedBoardOnPortKey(config.selectedPort),
                            !.val = config.selectedBoard])]
       ELSE [s EXCEPT !.tasks = Append(@, SaveConfigsTask(s, task))]

\* set boardsConfig(config): setBoardsConfig, then saveState is started.
SetBoardsConfigProperty(s, config) == saveState(setBoardsConfig(s, config))

\* The end of a pass: inject, sort, diff, store and notify.
FinishPass(s, t) ==
  LET task == s.tasks[t]
      list == SortBoards(InjectSelected(task.entries, task.config))
      done == MkTask(task.kind, "after")
      s1 == [s EXCEPT !.tasks[t] = done, !.derived = list]
  IN IF hasChanged(list, task.current)
       THEN Fire([s1 EXCEPT !.availableBoards = list], "availableBoards")
       ELSE s1

\* Mutant of reconcileAvailableBoards: the port is cleared through the
\* boardsConfig setter, which starts a saveState.
reconcileAvailableBoardsBySetter(s, t) ==
  LET ports == s.availablePorts
      s1 == IF SelectedPortGone(s.boardsConfig, ports)
              THEN Fire(SetBoardsConfigProperty(s,
                     MkConfig(s.boardsConfig.selectedBoard, NoPort)), "boardsConfig")
              ELSE s
      attached == BoardsWithPort(s1.attachedBoards)
      task == [MkTask(s.tasks[t].kind, "read") EXCEPT
                 !.config = s1.boardsConfig,
                 !.current = s1.availableBoards,
                 !.attached = attached,
                 !.ports = availableBoardPorts(ports, attached)]
      s2 == [s1 EXCEPT !.tasks[t] = task]
  IN IF task.ports = << >> THEN FinishPass(s2, t) ELSE s2

\* reconcileAvailableBoards up to its first await, run by task t.
reconcileAvailableBoards(s, t) ==
  LET ports == s.availablePorts
      s1 == IF SelectedPortGone(s.boardsConfig, ports)
              THEN Fire(setBoardsConfig(s,
                     MkConfig(s.boardsConfig.selectedBoard, NoPort)), "boardsConfig")
              ELSE s
      attached == BoardsWithPort(s1.attachedBoards)
      task == [MkTask(s.tasks[t].kind, "read") EXCEPT
                 !.config = s1.boardsConfig,
                 !.current = s1.availableBoards,
                 !.attached = attached,
                 !.ports = availableBoardPorts(ports, attached)]
      s2 == [s1 EXCEPT !.tasks[t] = task]
  IN IF task.ports = << >> THEN FinishPass(s2, t) ELSE s2

\* getLastSelectedBoardOnPort answers for the next candidate port.
ReadCompleted(s, t) ==
  LET task == s.tasks[t]
      boardPort == task.ports[Len(task.entries) + 1]
      lastSelectedBoard ==
        s.storage.lastSelected[getLastSelectedBoardOnPortKey(boardPort)]
      entry == ResolveEntry(boardPort, task.attached, lastSelectedBoard, task.config)
      s1 == [s EXCEPT !.tasks[t].entries = Append(@, entry)]
  IN IF Len(s1.tasks[t].entries) = Len(task.ports) THEN FinishPass(s1, t) ELSE s1

\* setData(last-selected key) completed: the two config writes are issued.
SaveKeyCompleted(s, t) ==
  LET task == s.tasks[t]
  IN [s EXCEPT !.storage.lastSelected[task.key] = Some(task.val),
               !.tasks[t] = SaveConfigsTask(s, task)]

\* Mutant of SaveConfigsCompleted: the pass starts with the config writes
\* still pending.
SaveConfigsUnsettled(s, t) == reconcileAvailableBoards(s, t)

\* Both config writes completed: saveState is done and the pass starts.
SaveConfigsCompleted(s, t) ==
  LET task == s.tasks[t]
  IN reconcileAvailableBoards(
       [s EXCEPT !.storage.valid = task.wValid,
                 !.storage.latest = task.wLatest], t)

(***************************************************************************)
(* canVerify and canUploadTo as called from outside: arg is the config     *)
(* argument (None when it is left out, and the parameter defaults to the   *)
(* current configuration), result is what the call returns, and a warning  *)
(* of the message service is a notification named after its message.       *)
(***************************************************************************)
ConfigArgument(s, arg) == IF arg = None THEN s.boardsConfig ELSE arg[1]

Warn(s, silent, message) == IF silent THEN s ELSE Fire(s, message)

canVerifyCall(s, arg, silent) ==
  LET config == ConfigArgument(s, arg)
  IN IF config.selectedBoard = NoBoard
       THEN [Warn(s, silent, "warn:noneSelected") EXCEPT !.result = "false"]
       ELSE [s EXCEPT !.result = "true"]

\* Mutant of canUploadToCall: the fqbn is looked at before the port.
canUploadToCallFqbnFirst(s, arg, silent) ==
  LET config == ConfigArgument(s, arg)
      verified == canVerifyCall(s, Some(config), silent)
  IN IF verified.result = "false" THEN verified
     ELSE IF config.selectedBoard.fqbn \in {Undef, ""}
       THEN [Warn(s, silent, "warn:noFQBN") EXCEPT !.result = "false"]
     ELSE IF config.selectedPort = NoPort
       THEN [Warn(s, silent, "warn:noPortsSelected") EXCEPT !.result = "false"]
     ELSE [s EXCEPT !.result = "true"]

canUploadToCall(s, arg, silent) ==
  LET config == ConfigArgument(s, arg)
      verified == canVerifyCall(s, Some(config), silent)
  IN IF verified.result = "false" THEN verified
     ELSE IF config.selectedPort = NoPort
       THEN [Warn(s, silent, "warn:noPortsSelected") EXCEPT !.result = "false"]
     ELSE IF config.selectedBoard.fqbn \in {Undef, ""}
       THEN [Warn(s, silent, "warn:noFQBN") EXCEPT !.result = "false"]
     ELSE [s EXCEPT !.result = "true"]

(***************************************************************************)
(* tryReconnect.  reconnect tells how it ended: "skip" (no remembered      *)
(* valid configuration, or the current one is uploadable), "exact",        *)
(* "relaxed", "none" (no match), "throw" (a TypeError on a remembered      *)
(* configuration that lacks its board or its port).                        *)
(***************************************************************************)
Reconnectable(boards) ==
  {i \in 1..Len(boards) : boards[i].state # "incomplete"}

\* Mutant of SameFqbnAndName: the fqbn comparison is left out.
SameNameOnly(config, board) == config.selectedBoard.name = board.name

SameFqbnAndName(config, board) ==
  /\ config.selectedBoard.fqbn = board.fqbn
  /\ config.selectedBoard.name = board.name

\* Mutant of ExactMatches: the remembered address is compared with the
\* board's protocol, so the first loop never matches.
ExactMatchesMixedFields(boards, valid) ==
  {i \in Reconnectable(boards) :
     /\ SameFqbnAndName(valid, boards[i])
     /\ valid.selectedPort.address = boards[i].port.protocol}

ExactMatches(boards, valid) ==
  {i \in Reconnectable(boards) :
     /\ SameFqbnAndName(valid, boards[i])
     /\ PortSameAs(valid.selectedPort, boards[i].port)}

\* Mutant of RelaxedMatches: the second loop compares whole ports too.
RelaxedMatchesSamePort(boards, valid) ==
  {i \in Reconnectable(boards) :
     /\ SameFqbnAndName(valid, boards[i])
     /\ PortSameAs(valid.selectedPort, boards[i].port)}

RelaxedMatches(boards, valid) ==
  {i \in Reconnectable(boards) :
     /\ SameFqbnAndName(valid, boards[i])
     /\ valid.selectedPort.protocol = boards[i].port.protocol}

tryReconnect(s) ==
  IF s.latestValidBoardsConfig = None \/ canUploadTo(s.boardsConfig)
    THEN [s EXCEPT !.reconnect = "skip"]
  ELSE
    LET valid == s.latestValidBoardsConfig[1]
        boards == s.availableBoards
    IN IF valid.selectedBoard = NoBoard /\ Reconnectable(boards) # {}
         THEN [s EXCEPT !.reconnect = "throw"]
       ELSE IF ExactMatches(boards, valid) # {}
         THEN [SetBoardsConfigProperty(s, valid) EXCEPT !.reconnect = "exact"]
       ELSE IF /\ valid.selectedPort = NoPort
               /\ \E i \in Reconnectable(boards) : SameFqbnAndName(valid, boards[i])
         THEN [s EXCEPT !.reconnect = "throw"]
       ELSE IF RelaxedMatches(boards, valid) # {}
         THEN [SetBoardsConfigProperty(s,
                 MkConfig(valid.selectedBoard,
                          boards[Min(RelaxedMatches(boards, valid))].port))
               EXCEPT !.reconnect = "relaxed"]
       ELSE [s EXCEPT !.reconnect = "none"]

(***************************************************************************)
(* Package events.  A package is [id, boards].                             *)
(***************************************************************************)
\* boards.find(({ name }) => name === selectedBoard.name)
FindByName(boards, name) ==
  LET idx == {i \in 1..Len(boards) : boards[i].name = name}
  IN IF idx = {} THEN NoBoard ELSE boards[Min(idx)]

\* Mutant of notifyPlatformInstalled: the new configuration is built without
\* spreading the current one, so the selected port is lost.
notifyPlatformInstalledDropsPort(s, item) ==
  LET selectedBoard == s.boardsConfig.selectedBoard
      installedBoard == FindByName(item.boards, selectedBoard.name)
  IN IF selectedBoard = NoBoard THEN s
     ELSE IF /\ installedBoard # NoBoard
             /\ \/ selectedBoard.fqbn = Undef
                \/ selectedBoard.fqbn = installedBoard.fqbn
       THEN SetBoardsConfigProperty(s, MkConfig(installedBoard, NoPort))
     ELSE SetBoardsConfigProperty(s, s.boardsConfig)

notifyPlatformInstalled(s, item) ==
  LET selectedBoard == s.boardsConfig.selectedBoard
      installedBoard == FindByName(item.boards, selectedBoard.name)
  IN IF selectedBoard = NoBoard THEN s
     ELSE IF /\ installedBoard # NoBoard
             /\ \/ selectedBoard.fqbn = Undef
                \/ selectedBoard.fqbn = installedBoard.fqbn
       THEN SetBoardsConfigProperty(s,
              [s.boardsConfig EXCEPT !.selectedBoard = installedBoard])
     ELSE IF /\ BoardWithPackageIs(selectedBoard)
             /\ selectedBoard.packageId = item.id
             /\ installedBoard = NoBoard
       THEN SetBoardsConfigProperty(Fire(s, "warn"), EmptyConfig)
     ELSE SetBoardsConfigProperty(s, s.boardsConfig)

\* The available board the uninstall handler takes for the selected one.
SelectedAvailableBoard(s, selectedBoard) ==
  IF AvailableBoardIs(selectedBoard) THEN selectedBoard
  ELSE LET idx == {i \in 1..Len(s.availableBoards) :
                     BoardSameAs(s.availableBoards[i], selectedBoard)}
       IN IF idx = {} THEN NoBoard ELSE s.availableBoards[Min(idx)]

\* Mutant of notifyPlatformUninstalled: the stripped configuration is built
\* without spreading the current one, so the selected port is lost.
notifyPlatformUninstalledDropsPort(s, item) ==
  LET selectedBoard == s.boardsConfig.selectedBoard
      uninstalledBoard == FindByName(item.boards, selectedBoard.name)
      selectedAvailableBoard == SelectedAvailableBoard(s, selectedBoard)
  IN IF selectedBoard = NoBoard \/ selectedBoard.fqbn = Undef THEN s
     ELSE IF uninstalledBoard = NoBoard \/ uninstalledBoard.fqbn # selectedBoard.fqbn
       THEN s
     ELSE IF /\ selectedAvailableBoard # NoBoard
             /\ selectedAvailableBoard.selected = "true"
             /\ selectedAvailableBoard.state = "recognized"
       THEN s
     ELSE SetBoardsConfigProperty(s,
            MkConfig(PlainBoard(selectedBoard.name, Undef), NoPort))

notifyPlatformUninstalled(s, item) ==
  LET selectedBoard == s.boardsConfig.selectedBoard
      uninstalledBoard == FindByName(item.boards, selectedBoard.name)
      selectedAvailableBoard == SelectedAvailableBoard(s, selectedBoard)
  IN IF selectedBoard = NoBoard \/ selectedBoard.fqbn = Undef THEN s
     ELSE IF uninstalledBoard = NoBoard \/ uninstalledBoard.fqbn # selectedBoard.fqbn
       THEN s
     ELSE IF /\ selectedAvailableBoard # NoBoard
             /\ selectedAvailableBoard.selected = "true"
             /\ selectedAvailableBoard.state = "recognized"
       THEN s
     ELSE SetBoardsConfigProperty(s,
            [s.boardsConfig EXCEPT
               !.selectedBoard = PlainBoard(selectedBoard.name, Undef)])

(***************************************************************************)
(* Discovery events and startup.  A snapshot is [boards, ports].           *)
(***************************************************************************)
notifyAttachedBoardsChanged(s, newState) ==
  LET s1 == Fire([s EXCEPT !.attachedBoards = newState.boards,
                           !.availablePorts = newState.ports,
                           !.tasks = Append(@, MkTask("disc", "read"))],
                 "availablePorts")
  IN reconcileAvailableBoards(s1, Len(s1.tasks))

\* loadState after getData(latest-valid) answered.
LoadValidCompleted(s, t) ==
  LET stored == s.storage.valid
  IN IF stored # None
       THEN LET s1 == [s EXCEPT !.latestValidBoardsConfig = stored,
                                !.tasks[t] = MkTask("start", "hydrate")]
            IN IF canUploadTo(stored[1])
                 THEN SetBoardsConfigProperty(s1, stored[1])
                 ELSE s1
       ELSE [s EXCEPT !.tasks[t] = MkTask("start", "loadLatest")]

\* loadState after getData(latest) answered; fromUrl is what the launch URL
\* encodes (None or Some(config)).
LoadLatestCompleted(s, t, fromUrl) ==
  LET stored == IF s.storage.latest # None THEN s.storage.latest ELSE fromUrl
      s1 == [s EXCEPT !.tasks[t] = MkTask("start", "hydrate")]
  IN IF stored # None
       THEN SetBoardsConfigProperty(
              [s1 EXCEPT !.latestBoardsConfig = stored], stored[1])
       ELSE s1

\* Promise.all resolved with the snapshot the two discovery queries returned.
Hydrated(s, t, snapshot) ==
  reconcileAvailableBoards(
    Fire([s EXCEPT !.attachedBoards = snapshot.boards,
                   !.availablePorts = snapshot.ports], "availablePorts"), t)

\* The callback behind a finished pass.
AfterPass(s, t) ==
  LET kind == s.tasks[t].kind
      s1 == [s EXCEPT !.tasks = RemoveAt(@, t)]
  IN IF kind = "set" THEN Fire(s1, "boardsConfig")
     ELSE LET s2 == tryReconnect(s1)
          IN IF kind = "start" /\ s2.reconnect # "throw"
               THEN [s2 EXCEPT !.reconciled = TRUE]
               ELSE s2

(***************************************************************************)
(* The inputs of the engine model.                                         *)
(***************************************************************************)
\* External events (discovery updates, configuration sets, package events)
\* in one run.
MaxEvents == 1

\* An external event arrives while at most this many tasks are in flight.
MaxPending == 1

Serial5 == MkPort("serial", "COM5")

Serial10 == MkPort("serial", "COM10")

Network7 == MkPort("network", "COM7")

Addresses == {"COM5", "COM10", "COM7", "tty3", "usb1"}

UnoFqbn == "arduino:avr:uno"

NanoFqbn == "arduino:avr:nano"

AvrId == "arduino:avr"

\* The Uno as the boards dialog hands it over: a board with its package.
UnoOfPackage == MkBoard("Uno", UnoFqbn, AvrId, NoPort, Undef, Undef)

\* The snapshots discovery reports.
Snapshots ==
  { [boards |-> << >>, ports |-> << >>],
    [boards |-> << >>, ports |-> << Serial5, Serial10 >>],
    [boards |-> << AttachedBoard("Uno", UnoFqbn, Serial5) >>,
     ports |-> << Serial5 >>],
    [boards |-> << AttachedBoard("Uno", UnoFqbn, Serial5),
                   AttachedBoard("Uno", UnoFqbn, Serial10) >>,
     ports |-> << Serial5, Serial10 >>],
    [boards |-> << AttachedBoard("Uno", UnoFqbn, Network7) >>,
     ports |-> << Network7 >>] }

\* The configurations the user interface sets: from the boards dialog, or
\* an available board picked in the toolbar together with its port.
DialogConfigs ==
  { EmptyConfig,
    MkConfig(UnoOfPackage, Serial10),
    MkConfig(PlainBoard("Uno", Undef), Serial5) }

ToolbarConfigs ==
  { MkConfig(availableBoards[i], availableBoards[i].port) :
      i \in {j \in 1..Len(availableBoards) : availableBoards[j].port # NoPort} }

Packages ==
  { [id |-> AvrId, boards |-> << PlainBoard("Uno", UnoFqbn) >>],
    [id |-> AvrId, boards |-> << PlainBoard("Nano", NanoFqbn) >>] }

\* What the store holds when the application starts.
StoredValidConfigs ==
  { None,
    Some(MkConfig(UnoOfPackage, Serial10)),
    Some(MkConfig(PlainBoard("Uno", Undef), Serial10)) }

StoredLatestConfigs == { None, Some(MkConfig(PlainBoard("Uno", Undef), Serial5)) }

StoredLastSelected ==
  { [a \in Addresses |-> IF a = "COM5" THEN Some(UnoOfPackage) ELSE None] }

UrlConfigs == { None, Some(MkConfig(PlainBoard("Nano", NanoFqbn), NoPort)) }

(***************************************************************************)
(* The engine as a state machine.                                          *)
(***************************************************************************)
Init ==
  /\ boardsConfig = EmptyConfig
  /\ latestBoardsConfig = None
  /\ latestValidBoardsConfig = None
  /\ attachedBoards = << >>
  /\ availablePorts = << >>
  /\ availableBoards = << >>
  /\ storage \in [valid : StoredValidConfigs, latest : StoredLatestConfigs,
                  lastSelected : StoredLastSelected]
  /\ tasks = << >>
  /\ appState = "constructed"
  /\ reconciled = FALSE
  /\ events = 0
  /\ last = [op |-> "new", fired |-> << >>, payload |-> << >>, reconnect |-> "no",
             result |-> "void"]
  /\ derived = << >>
  /\ waits = << >>

\* The step from the current state to state s, taken by op.
Becomes(s, op) ==
  /\ boardsConfig' = s.boardsConfig
  /\ latestBoardsConfig' = s.latestBoardsConfig
  /\ latestValidBoardsConfig' = s.latestValidBoardsConfig
  /\ attachedBoards' = s.attachedBoards
  /\ availablePorts' = s.availablePorts
  /\ availableBoards' = s.availableBoards
  /\ storage' = s.storage
  /\ tasks' = s.tasks
  /\ reconciled' = s.reconciled
  /\ derived' = s.derived
  /\ waits' = s.waits
  /\ last' = [op |-> op, fired |-> s.fired, payload |-> s.payload,
              reconnect |-> s.reconnect, result |-> s.result]

\* onStart registers the three handlers.
OnStart ==
  /\ appState = "constructed"
  /\ appState' = "started"
  /\ UNCHANGED events
  /\ Becomes(Engine, "onStart")

\* The application reached 'ready': the discovery queries and loadState start.
ReachedReady ==
  /\ appState = "started"
  /\ appState' = "ready"
  /\ UNCHANGED events
  /\ Becomes([Engine EXCEPT !.tasks = Append(@, MkTask("start", "loadValid"))],
             "ready")

\* The handlers are registered by onStart.  An event that arrives between
\* onStart and 'ready' finds the engine as one that arrives right after
\* 'ready' does, so events are taken from 'ready' on.
Listening ==
  /\ appState = "ready"
  /\ events < MaxEvents
  /\ Len(tasks) <= MaxPending

AttachedBoardsChanged ==
  /\ Listening
  /\ events' = events + 1
  /\ UNCHANGED appState
  /\ \E newState \in Snapshots :
       Becomes(notifyAttachedBoardsChanged(Engine, newState), "attachedBoardsChanged")

SetSelectedConfiguration ==
  /\ Listening
  /\ events' = events + 1
  /\ UNCHANGED appState
  /\ \E config \in DialogConfigs \cup ToolbarConfigs :
       Becomes(SetBoardsConfigProperty(Engine, config), "setBoardsConfig")

PlatformInstalledWith(item) ==
  /\ Listening
  /\ events' = events + 1
  /\ UNCHANGED appState
  /\ Becomes(notifyPlatformInstalled(Engine, item), "platformInstalled")

PlatformInstalled == \E item \in Packages : PlatformInstalledWith(item)

PlatformUninstalledWith(item) ==
  /\ Listening
  /\ events' = events + 1
  /\ UNCHANGED appState
  /\ Becomes(notifyPlatformUninstalled(Engine, item), "platformUninstalled")

PlatformUninstalled == \E item \in Packages : PlatformUninstalledWith(item)

\* An awaited call of task t completes and the task runs to its next await.
SaveKeyDone(t) ==
  /\ tasks[t].pc = "saveKey"
  /\ UNCHANGED << appState, events >>
  /\ Becomes(SaveKeyCompleted(Engine, t), "saveKey")

SaveConfigsDone(t) ==
  /\ tasks[t].pc = "saveCfgs"
  /\ UNCHANGED << appState, events >>
  /\ Becomes(SaveConfigsCompleted(Engine, t), "saveConfigs")

ReadDone(t) ==
  /\ tasks[t].pc = "read"
  /\ UNCHANGED << appState, events >>
  /\ Becomes(ReadCompleted(Engine, t), "read")

LoadValidDone(t) ==
  /\ tasks[t].pc = "loadValid"
  /\ UNCHANGED << appState, events >>
  /\ Becomes(LoadValidCompleted(Engine, t), "loadValid")

LoadLatestDone(t) ==
  /\ tasks[t].pc = "loadLatest"
  /\ UNCHANGED << appState, events >>
  /\ \E fromUrl \in UrlConfigs :
       Becomes(LoadLatestCompleted(Engine, t, fromUrl), "loadLatest")

HydrateDone(t) ==
  /\ tasks[t].pc = "hydrate"
  /\ UNCHANGED << appState, events >>
  /\ \E snapshot \in Snapshots :
       Becomes(Hydrated(Engine, t, snapshot), "hydrate")

AfterPassDone(t) ==
  /\ tasks[t].pc = "after"
  /\ UNCHANGED << appState, events >>
  /\ Becomes(AfterPass(Engine, t),
             IF tasks[t].kind = "set" THEN "notify" ELSE "tryReconnect")

Next ==
  \/ OnStart
  \/ ReachedReady
  \/ AttachedBoardsChanged
  \/ SetSelectedConfiguration
  \/ PlatformInstalled
  \/ PlatformUninstalled
  \/ \E t \in 1..Len(tasks) : SaveKeyDone(t)
  \/ \E t \in 1..Len(tasks) : SaveConfigsDone(t)
  \/ \E t \in 1..Len(tasks) : ReadDone(t)
  \/ \E t \in 1..Len(tasks) : LoadValidDone(t)
  \/ \E t \in 1..Len(tasks) : LoadLatestDone(t)
  \/ \E t \in 1..Len(tasks) : HydrateDone(t)
  \/ \E t \in 1..Len(tasks) : AfterPassDone(t)

Spec == Init /\ [][Next]_vars

(***************************************************************************)
(* One reconciliation pass on its own, for any inputs: SpecPass starts     *)
(* from any attached boards, available ports, remembered boards and        *)
(* configuration, and runs one pass with nothing interleaved.              *)
(***************************************************************************)
MaxPassPorts == 2

MaxPassAttached == 1

\* Same address as Serial5, another protocol.
Network5 == MkPort("network", "COM5")

\* Ports of protocols other than serial and network.
Usb1 == MkPort("usb", "usb1")

Teensy3 == MkPort("teensy", "tty3")

\* Same address as Teensy3, another protocol.
Usb3 == MkPort("usb", "tty3")

PassPorts == { Serial5, Serial10, Network5, Network7, Usb1, Teensy3, Usb3 }

PassAttached ==
  { AttachedBoard("Uno", UnoFqbn, port) : port \in PassPorts }
    \cup { AttachedBoard("Nano", NanoFqbn, Network5) }

\* The Uno as picked in the toolbar on COM5: the board carries its port.
UnoAtSerial5 == MkBoard("Uno", UnoFqbn, Undef, Serial5, "recognized", "false")

PassBoards == { UnoOfPackage, UnoAtSerial5 }

\* Sequences of distinct elements of S, up to length n.
DistinctSeqs(S, n) ==
  UNION { { q \in [1..k -> S] : \A i, j \in 1..k : i # j => q[i] # q[j] } :
          k \in 0..n }

SeqsUpTo(S, n) == UNION { [1..k -> S] : k \in 0..n }

InitPass ==
  /\ boardsConfig \in
       { MkConfig(b, p) : b \in PassBoards \cup { NoBoard },
                          p \in { NoPort, Serial5, Serial10 } }
  /\ latestBoardsConfig = None
  /\ latestValidBoardsConfig = None
  /\ attachedBoards \in SeqsUpTo(PassAttached, MaxPassAttached)
  /\ availablePorts \in DistinctSeqs(PassPorts, MaxPassPorts)
  /\ availableBoards = << >>
  /\ \E remembered \in [{"COM5", "COM10"} -> { None } \cup { Some(b) : b \in PassBoards }] :
       storage = [valid |-> None, latest |-> None,
                  lastSelected |-> [a \in Addresses |->
                     IF a \in DOMAIN remembered THEN remembered[a] ELSE None]]
  /\ tasks = << >>
  /\ appState = "ready"
  /\ reconciled = FALSE
  /\ events = 0
  /\ last = [op |-> "new", fired |-> << >>, payload |-> << >>, reconnect |-> "no",
             result |-> "void"]
  /\ derived = << >>
  /\ waits = << >>

\* Task t runs its pass to the end, every read answered at once.
RECURSIVE RunPass(_, _)
RunPass(s, t) ==
  IF s.tasks[t].pc = "read" THEN RunPass(ReadCompleted(s, t), t) ELSE s

WholePass ==
  /\ last.op = "new"
  /\ UNCHANGED << appState, events >>
  /\ LET s == [Engine EXCEPT !.tasks = << MkTask("disc", "read") >>]
     IN Becomes(RunPass(reconcileAvailableBoards(s, 1), 1), "pass")

NextPass == WholePass

SpecPass == InitPass /\ [][NextPass]_vars

(***************************************************************************)
(* waitUntilAvailable beside discovery: SpecWait starts from an engine that *)
(* has reconciled a snapshot, with nothing selected and nothing remembered; *)
(* calls are made, discovery updates run their pass to the end, and timers  *)
(* fire.                                                                    *)
(***************************************************************************)
MaxWaits == 1

MaxWaitEvents == 2

WaitTargets ==
  { AttachedBoard("Uno", UnoFqbn, Serial5),
    AttachedBoard("Uno", UnoFqbn, Serial10),
    AttachedBoard("Nano", NanoFqbn, Serial5) }

\* No timeout, zero, a negative and a positive number of milliseconds.
TimeoutArgs == { None, Some(0), Some(-1), Some(500) }

NothingRemembered == [a \in Addresses |-> None]

InitWait ==
  /\ boardsConfig = EmptyConfig
  /\ latestBoardsConfig = None
  /\ latestValidBoardsConfig = None
  /\ \E snapshot \in Snapshots :
       /\ attachedBoards = snapshot.boards
       /\ availablePorts = snapshot.ports
       /\ availableBoards = DeriveAvailableBoards(snapshot.boards, snapshot.ports,
                                                  NothingRemembered, EmptyConfig)
  /\ derived = availableBoards
  /\ storage = [valid |-> None, latest |-> None, lastSelected |-> NothingRemembered]
  /\ tasks = << >>
  /\ appState = "ready"
  /\ reconciled = TRUE
  /\ events = 0
  /\ last = [op |-> "new", fired |-> << >>, payload |-> << >>, reconnect |-> "no",
             result |-> "void"]
  /\ waits = << >>

WaitCalled ==
  /\ Len(waits) < MaxWaits
  /\ UNCHANGED << appState, events >>
  /\ \E what \in WaitTargets, timeout \in TimeoutArgs :
       Becomes(waitUntilAvailable(Engine, what, timeout), "waitUntilAvailable")

TimerFired ==
  /\ UNCHANGED << appState, events >>
  /\ \E w \in 1..Len(waits) :
       /\ waits[w].timer = "armed"
       /\ Becomes(TimeoutElapsed(Engine, w), "timeout")

\* A discovery update whose pass and reconnect attempt run to the end.
DiscoveryPass ==
  /\ events < MaxWaitEvents
  /\ events' = events + 1
  /\ UNCHANGED appState
  /\ \E newState \in Snapshots :
       LET s1 == notifyAttachedBoardsChanged(Engine, newState)
           s2 == RunPass(s1, Len(s1.tasks))
       IN Becomes(AfterPass(s2, Len(s2.tasks)), "attachedBoardsChanged")

NextWait == WaitCalled \/ TimerFired \/ DiscoveryPass

SpecWait == InitWait /\ [][NextWait]_vars

(***************************************************************************)
(* canVerify and canUploadTo on their own: SpecCan starts from an engine   *)
(* with any of the configurations below as current one and calls the two   *)
(* predicates with every argument.                                         *)
(***************************************************************************)
CanBoards ==
  { NoBoard, PlainBoard("Uno", Undef), PlainBoard("Uno", ""), UnoOfPackage }

CanConfigs == { MkConfig(b, p) : b \in CanBoards, p \in { NoPort, Serial5 } }

InitCan ==
  /\ boardsConfig \in CanConfigs
  /\ latestBoardsConfig = Some(boardsConfig)
  /\ latestValidBoardsConfig =
       IF canUploadTo(boardsConfig) THEN Some(boardsConfig) ELSE None
  /\ \E snapshot \in Snapshots :
       /\ attachedBoards = snapshot.boards
       /\ availablePorts = snapshot.ports
       /\ availableBoards = DeriveAvailableBoards(snapshot.boards, snapshot.ports,
                                                  NothingRemembered, boardsConfig)
  /\ derived = availableBoards
  /\ storage = [valid |-> latestValidBoardsConfig, latest |-> latestBoardsConfig,
                lastSelected |-> NothingRemembered]
  /\ tasks = << >>
  /\ appState = "ready"
  /\ reconciled = TRUE
  /\ events = 0
  /\ last = [op |-> "new", fired |-> << >>, payload |-> << >>, reconnect |-> "no",
             result |-> "void"]
  /\ waits = << >>

CanVerifyCalledWith(arg, silent) ==
  /\ UNCHANGED << appState, events >>
  /\ Becomes(canVerifyCall(Engine, arg, silent), "canVerify")

CanVerifyCalled ==
  \E arg \in { None } \cup { Some(c) : c \in CanConfigs }, silent \in BOOLEAN :
    CanVerifyCalledWith(arg, silent)

CanUploadToCalledWith(arg, silent) ==
  /\ UNCHANGED << appState, events >>
  /\ Becomes(canUploadToCall(Engine, arg, silent), "canUploadTo")

CanUploadToCalled ==
  \E arg \in { None } \cup { Some(c) : c \in CanConfigs }, silent \in BOOLEAN :
    CanUploadToCalledWith(arg, silent)

NextCan == CanVerifyCalled \/ CanUploadToCalled

SpecCan == InitCan /\ [][NextCan]_vars

(***************************************************************************)
(* Remembered boards: SpecRemember starts from a started engine with       *)
(* nothing attached, selected or stored, and takes configuration sets and  *)
(* discovery events whose ports share an address across protocols.         *)
(***************************************************************************)
MaxRememberEvents == 2

NanoBoard == PlainBoard("Nano", NanoFqbn)

RememberConfigs ==
  { MkConfig(UnoOfPackage, Serial5),
    MkConfig(NanoBoard, Network5),
    MkConfig(NanoBoard, NoPort) }

RememberSnapshots ==
  { [boards |-> << >>, ports |-> << Serial5 >>],
    [boards |-> << >>, ports |-> << Serial5, Serial10 >>],
    [boards |-> << AttachedBoard("Uno", UnoFqbn, Serial5) >>,
     ports |-> << Serial5, Network5 >>] }

InitRemember ==
  /\ boardsConfig = EmptyConfig
  /\ latestBoardsConfig = None
  /\ latestValidBoardsConfig = None
  /\ attachedBoards = << >>
  /\ availablePorts = << >>
  /\ availableBoards = << >>
  /\ storage = [valid |-> None, latest |-> None, lastSelected |-> NothingRemembered]
  /\ tasks = << >>
  /\ appState = "ready"
  /\ reconciled = TRUE
  /\ events = 0
  /\ last = [op |-> "new", fired |-> << >>, payload |-> << >>, reconnect |-> "no",
             result |-> "void"]
  /\ derived = << >>
  /\ waits = << >>

RememberListening ==
  /\ events < MaxRememberEvents
  /\ Len(tasks) <= MaxPending

RememberSet ==
  /\ RememberListening
  /\ events' = events + 1
  /\ UNCHANGED appState
  /\ \E config \in RememberConfigs :
       Becomes(SetBoardsConfigProperty(Engine, config), "setBoardsConfig")

RememberDiscovery ==
  /\ RememberListening
  /\ events' = events + 1
  /\ UNCHANGED appState
  /\ \E newState \in RememberSnapshots :
       Becomes(notifyAttachedBoardsChanged(Engine, newState), "attachedBoardsChanged")

NextRemember ==
  \/ RememberSet
  \/ RememberDiscovery
  \/ \E t \in 1..Len(tasks) : SaveKeyDone(t)
  \/ \E t \in 1..Len(tasks) : SaveConfigsDone(t)
  \/ \E t \in 1..Len(tasks) : ReadDone(t)
  \/ \E t \in 1..Len(tasks) : AfterPassDone(t)

SpecRemember == InitRemember /\ [][NextRemember]_vars

(***************************************************************************)
(* Discovery events one after the other: SpecRepeat starts from a started  *)
(* engine and takes discovery events, each of which runs its pass and the  *)
(* callback behind it to the end before the next event arrives.            *)
(***************************************************************************)
MaxRepeatEvents == 3

\* Same fqbn as the Uno, another name.
UnoR3AtSerial5 == AttachedBoard("Uno R3", UnoFqbn, Serial5)

RepeatSnapshots ==
  { [boards |-> << >>, ports |-> << >>],
    [boards |-> << >>, ports |-> << Serial5, Serial10 >>],
    [boards |-> << AttachedBoard("Uno", UnoFqbn, Serial5) >>, ports |-> << Serial5 >>],
    [boards |-> << UnoR3AtSerial5 >>, ports |-> << Serial5 >>],
    [boards |-> << AttachedBoard("Uno", UnoFqbn, Usb3) >>, ports |-> << Usb3 >>],
    [boards |-> << AttachedBoard("Uno", UnoFqbn, Teensy3) >>, ports |-> << Teensy3 >>] }

InitRepeat ==
  /\ boardsConfig \in { EmptyConfig, MkConfig(UnoOfPackage, Serial5) }
  /\ latestBoardsConfig = None
  /\ latestValidBoardsConfig = None
  /\ attachedBoards = << >>
  /\ availablePorts = << >>
  /\ availableBoards = << >>
  /\ \E remembered \in { None, Some(UnoOfPackage) } :
       storage = [valid |-> None, latest |-> None,
                  lastSelected |-> [NothingRemembered EXCEPT !["COM10"] = remembered]]
  /\ tasks = << >>
  /\ appState = "ready"
  /\ reconciled = TRUE
  /\ events = 0
  /\ last = [op |-> "new", fired |-> << >>, payload |-> << >>, reconnect |-> "no",
             result |-> "void"]
  /\ derived = << >>
  /\ waits = << >>

\* notifyAttachedBoardsChanged with every read of its pass answered at once,
\* and the tryReconnect behind the pass.
DiscoveryToTheEnd(s, newState) ==
  LET s1 == notifyAttachedBoardsChanged(s, newState)
      t == Len(s1.tasks)
  IN AfterPass(RunPass(s1, t), t)

RepeatDiscovery ==
  /\ tasks = << >>
  /\ events < MaxRepeatEvents
  /\ events' = events + 1
  /\ UNCHANGED appState
  /\ \E newState \in RepeatSnapshots :
       Becomes(DiscoveryToTheEnd(Engine, newState), "discovery")

NextRepeat == RepeatDiscovery

SpecRepeat == InitRepeat /\ [][NextRepeat]_vars

(***************************************************************************)
(* Startup beside discovery events: SpecStart is the engine from its       *)
(* construction on, with the answer of the two discovery queries of line   *)
(* 97 followed: the queries answer with the attached boards and ports of   *)
(* the moment, and Promise.all hands the answer over once loadState is     *)
(* done too.  Discovery events are delivered when the boards or ports      *)
(* change, so what the last event reported is what a query answers with.   *)
(***************************************************************************)
MaxStartEvents == 1

StartSnapshots ==
  { [boards |-> << >>, ports |-> << >>],
    [boards |-> << >>, ports |-> << Serial5, Serial10 >>],
    [boards |-> << AttachedBoard("Uno", UnoFqbn, Serial10) >>,
     ports |-> << Serial10 >>],
    [boards |-> << AttachedBoard("Nano", NanoFqbn, Serial10) >>,
     ports |-> << Serial10 >>] }

\* The start task is still before line 102.
BeforeHydration(task) ==
  task.kind = "start" /\ task.pc \in {"loadValid", "loadLatest", "hydrate"}

\* getAttachedBoards and getAvailablePorts answered with snapshot.
QueriesAnswered(s, t, snapshot) == [s EXCEPT !.tasks[t].answer = Some(snapshot)]

\* A step of loadState leaves the answer of the queries with the task.
KeepAnswer(s, t, answer) == [s EXCEPT !.tasks[t].answer = answer]

StartQueriesAnswered(t) ==
  /\ BeforeHydration(tasks[t])
  /\ tasks[t].answer = None
  /\ UNCHANGED << appState, events >>
  /\ \E snapshot \in IF events = 0
                        THEN StartSnapshots
                        ELSE { [boards |-> attachedBoards, ports |-> availablePorts] } :
       Becomes(QueriesAnswered(Engine, t, snapshot), "answered")

StartLoadValidDone(t) ==
  /\ tasks[t].pc = "loadValid"
  /\ UNCHANGED << appState, events >>
  /\ Becomes(KeepAnswer(LoadValidCompleted(Engine, t), t, tasks[t].answer),
             "loadValid")

StartLoadLatestDone(t) ==
  /\ tasks[t].pc = "loadLatest"
  /\ UNCHANGED << appState, events >>
  /\ \E fromUrl \in UrlConfigs :
       Becomes(KeepAnswer(LoadLatestCompleted(Engine, t, fromUrl), t, tasks[t].answer),
               "loadLatest")

StartHydrateDone(t) ==
  /\ tasks[t].pc = "hydrate"
  /\ tasks[t].answer # None
  /\ UNCHANGED << appState, events >>
  /\ Becomes(Hydrated(Engine, t, tasks[t].answer[1]), "hydrate")

StartDiscovery ==
  /\ appState = "ready"
  /\ events < MaxStartEvents
  /\ Len(tasks) <= MaxPending
  /\ events' = events + 1
  /\ UNCHANGED appState
  /\ \E newState \in StartSnapshots :
       Becomes(notifyAttachedBoardsChanged(Engine, newState), "attachedBoardsChanged")

NextStart ==
  \/ OnStart
  \/ ReachedReady
  \/ StartDiscovery
  \/ \E t \in 1..Len(tasks) : StartQueriesAnswered(t)
  \/ \E t \in 1..Len(tasks) : StartLoadValidDone(t)
  \/ \E t \in 1..Len(tasks) : StartLoadLatestDone(t)
  \/ \E t \in 1..Len(tasks) : StartHydrateDone(t)
  \/ \E t \in 1..Len(tasks) : SaveKeyDone(t)
  \/ \E t \in 1..Len(tasks) : SaveConfigsDone(t)
  \/ \E t \in 1..Len(tasks) : ReadDone(t)
  \/ \E t \in 1..Len(tasks) : AfterPassDone(t)

SpecStart == Init /\ [][NextStart]_vars

(***************************************************************************)
(* One operation at a time: SpecPersist starts as SpecRemember does and    *)
(* takes a configuration set or a discovery event only when no work is in  *)
(* flight, so that no two writes to the store are pending together and the *)
(* store sees the writes in the order of their issue.                      *)
(***************************************************************************)
MaxPersistEvents == 2

AtRest ==
  /\ tasks = << >>
  /\ events < MaxPersistEvents

PersistSet ==
  /\ AtRest
  /\ events' = events + 1
  /\ UNCHANGED appState
  /\ \E config \in RememberConfigs :
       Becomes(SetBoardsConfigProperty(Engine, config), "setBoardsConfig")

PersistDiscovery ==
  /\ AtRest
  /\ events' = events + 1
  /\ UNCHANGED appState
  /\ \E newState \in RememberSnapshots :
       Becomes(notifyAttachedBoardsChanged(Engine, newState), "attachedBoardsChanged")

NextPersist ==
  \/ PersistSet
  \/ PersistDiscovery
  \/ \E t \in 1..Len(tasks) : SaveKeyDone(t)
  \/ \E t \in 1..Len(tasks) : SaveConfigsDone(t)
  \/ \E t \in 1..Len(tasks) : ReadDone(t)
  \/ \E t \in 1..Len(tasks) : AfterPassDone(t)

SpecPersist == InitRemember /\ [][NextPersist]_vars

(***************************************************************************)
(* Claims on the output of a pass, under SpecPass.                         *)
(***************************************************************************)
PassDone == last.op = "pass"

\* The entries the pass resolved from the candidate ports, before the
\* selected board is injected.
PortDerivedEntries ==
  LET attached == BoardsWithPort(attachedBoards)
      cand == availableBoardPorts(availablePorts, attached)
  IN [i \in 1..Len(cand) |->
        ResolveEntry(cand[i], attached,
                     storage.lastSelected[getLastSelectedBoardOnPortKey(cand[i])],
                     boardsConfig)]

SelectedEntries(boards) == {i \in 1..Len(boards) : boards[i].selected = "true"}

\* C1: after a reconciliation pass no two entries of the derived list have
\* the same port address.
C1_NoTwoEntriesOnOneAddress ==
  PassDone =>
    \A i, j \in 1..Len(derived) :
      i # j => derived[i].port.address # derived[j].port.address

\* C2: after a reconciliation pass at most one entry of the derived list has
\* selected = true.
C2_AtMostOneSelected ==
  PassDone => Cardinality(SelectedEntries(derived)) <= 1

\* C3: when a board is selected and no port-derived entry matches the
\* selection, the derived list has exactly one selected entry; it is
\* incomplete, carries the selected board's name and fqbn and the selected
\* port, and no other entry is left on that port's address.
C3_SyntheticSelectedEntry ==
  ( /\ PassDone
    /\ boardsConfig.selectedBoard # NoBoard
    /\ \A i \in 1..Len(PortDerivedEntries) : PortDerivedEntries[i].selected # "true" )
  =>
    /\ Cardinality(SelectedEntries(derived)) = 1
    /\ \A i \in SelectedEntries(derived) :
         /\ derived[i].state = "incomplete"
         /\ derived[i].name = boardsConfig.selectedBoard.name
         /\ derived[i].fqbn = boardsConfig.selectedBoard.fqbn
         /\ derived[i].port = boardsConfig.selectedPort
         /\ \A j \in 1..Len(derived) :
              j # i => derived[j].port.address # derived[i].port.address

(***************************************************************************)
(* Claims on the engine, under Spec.                                       *)
(***************************************************************************)
\* C4: latestValidBoardsConfig is unset or uploadable in every reachable state.
C4_LatestValidIsUploadable ==
  latestValidBoardsConfig = None \/ canUploadTo(latestValidBoardsConfig[1])

Quiescent == appState = "ready" /\ tasks = << >>

\* C5: once all asynchronous work has finished, availableBoards is what a
\* pass derives from the final attached boards, ports, remembered boards and
\* configuration.
C5_ConvergesToFinalState ==
  Quiescent =>
    availableBoards =
      DeriveAvailableBoards(attachedBoards, availablePorts,
                            storage.lastSelected, boardsConfig)

ReconnectStep == last'.op = "tryReconnect"

\* Available board i is not incomplete and has the remembered board's name and
\* fqbn, on a port of the remembered port's protocol.
RememberedBoardAt(i) ==
  /\ availableBoards[i].state # "incomplete"
  /\ availableBoards[i].name = latestValidBoardsConfig[1].selectedBoard.name
  /\ availableBoards[i].fqbn = latestValidBoardsConfig[1].selectedBoard.fqbn
  /\ availableBoards[i].port.protocol = latestValidBoardsConfig[1].selectedPort.protocol

OnRememberedAddress(i) ==
  availableBoards[i].port.address = latestValidBoardsConfig[1].selectedPort.address

Positions == 1..Len(availableBoards)

\* C6: with a remembered valid configuration, a current configuration that is
\* not uploadable, no non-incomplete board X/F on the remembered port but one
\* on another address of the same protocol, the reconnect attempt adopts the
\* remembered board on the newly found port, which becomes the remembered
\* valid configuration.
C6_RelaxedReconnect ==
  [][ ( /\ ReconnectStep
        /\ latestValidBoardsConfig # None
        /\ canUploadTo(latestValidBoardsConfig[1])
        /\ ~ canUploadTo(boardsConfig)
        /\ ~ \E i \in Positions : RememberedBoardAt(i) /\ OnRememberedAddress(i)
        /\ \E i \in Positions : RememberedBoardAt(i) /\ ~ OnRememberedAddress(i) )
      =>
      ( /\ boardsConfig'.selectedBoard = latestValidBoardsConfig[1].selectedBoard
        /\ \E i \in Positions :
             /\ RememberedBoardAt(i) /\ ~ OnRememberedAddress(i)
             /\ boardsConfig'.selectedPort = availableBoards[i].port
        /\ latestValidBoardsConfig' = Some(boardsConfig') ) ]_vars

\* A relaxed reconnect happened: the board remembered on COM10 was found on
\* COM5 and adopted there.
C6_Witness ==
  /\ last.op = "tryReconnect"
  /\ last.reconnect = "relaxed"
  /\ storage.valid = Some(MkConfig(UnoOfPackage, Serial10))
  /\ boardsConfig = MkConfig(UnoOfPackage, Serial5)

\* C7: when the current configuration is not uploadable and a non-incomplete
\* board equals the remembered valid configuration in fqbn, name and port, the
\* reconnect attempt adopts the remembered configuration, whatever precedes
\* that board in availableBoards.
C7_ExactReconnectFirst ==
  [][ ( /\ ReconnectStep
        /\ latestValidBoardsConfig # None
        /\ ~ canUploadTo(boardsConfig)
        /\ \E i \in Positions : RememberedBoardAt(i) /\ OnRememberedAddress(i) )
      => boardsConfig' = latestValidBoardsConfig[1] ]_vars

\* An exact reconnect happened although the same board on another address of
\* the same protocol stands earlier in availableBoards.
C7_Witness ==
  /\ last.op = "tryReconnect"
  /\ last.reconnect = "exact"
  /\ \E i, j \in Positions :
       /\ i < j
       /\ availableBoards[j].port = boardsConfig.selectedPort
       /\ availableBoards[i].state # "incomplete"
       /\ availableBoards[i].name = boardsConfig.selectedBoard.name
       /\ availableBoards[i].fqbn = boardsConfig.selectedBoard.fqbn
       /\ availableBoards[i].port.protocol = boardsConfig.selectedPort.protocol
       /\ availableBoards[i].port.address # boardsConfig.selectedPort.address

\* C8: a reconnect attempt changes nothing when the current configuration is
\* uploadable, or nothing valid is remembered, or no non-incomplete board has
\* the remembered board's fqbn and name on a port of the remembered protocol.
C8_ReconnectFrame ==
  [][ ( /\ ReconnectStep
        /\ \/ canUploadTo(boardsConfig)
           \/ latestValidBoardsConfig = None
           \/ ~ \E i \in Positions : RememberedBoardAt(i) )
      =>
      ( /\ boardsConfig' = boardsConfig
        /\ latestBoardsConfig' = latestBoardsConfig
        /\ latestValidBoardsConfig' = latestValidBoardsConfig
        /\ storage' = storage
        /\ last'.fired = << >>
        /\ Len(tasks') = Len(tasks) - 1 ) ]_vars

\* A reconnect attempt found nothing to adopt although an incomplete entry
\* has the remembered board's name and fqbn.
C8_Witness ==
  /\ last.op = "tryReconnect"
  /\ last.reconnect = "none"
  /\ latestValidBoardsConfig # None
  /\ ~ canUploadTo(boardsConfig)
  /\ \E i \in Positions :
       /\ availableBoards[i].state = "incomplete"
       /\ availableBoards[i].name = latestValidBoardsConfig[1].selectedBoard.name
       /\ availableBoards[i].fqbn = latestValidBoardsConfig[1].selectedBoard.fqbn

\* The board of the package that has the name of the selected board.
BoardsNamed(item, name) ==
  {item.boards[i] : i \in {j \in 1..Len(item.boards) : item.boards[j].name = name}}

\* C9: an install event with a board named as the selected board, whose fqbn
\* the selected board lacks or shares, makes that installed board the selected
\* board and leaves the selected port as it is.
C9_InstallFillsFqbn ==
  [][ \A item \in Packages :
        ( /\ PlatformInstalledWith(item)
          /\ boardsConfig.selectedBoard # NoBoard
          /\ \E b \in BoardsNamed(item, boardsConfig.selectedBoard.name) :
               \/ boardsConfig.selectedBoard.fqbn = Undef
               \/ boardsConfig.selectedBoard.fqbn = b.fqbn )
        =>
        ( /\ boardsConfig'.selectedBoard \in
               BoardsNamed(item, boardsConfig.selectedBoard.name)
          /\ boardsConfig'.selectedPort = boardsConfig.selectedPort ) ]_vars

\* The selected Uno without fqbn on COM5 got its fqbn from an install event.
C9_Witness ==
  /\ last.op = "platformInstalled"
  /\ storage.latest = Some(MkConfig(PlainBoard("Uno", Undef), Serial5))
  /\ boardsConfig = MkConfig(PlainBoard("Uno", UnoFqbn), Serial5)

\* The selection is backed by a live device: a recognized, selected available
\* board with the selected board's name and fqbn on the selected port.
LiveSelection ==
  /\ boardsConfig.selectedBoard # NoBoard
  /\ boardsConfig.selectedBoard.fqbn # Undef
  /\ \E i \in Positions :
       /\ availableBoards[i].state = "recognized"
       /\ availableBoards[i].selected = "true"
       /\ availableBoards[i].name = boardsConfig.selectedBoard.name
       /\ availableBoards[i].fqbn = boardsConfig.selectedBoard.fqbn
       /\ availableBoards[i].port = boardsConfig.selectedPort

\* C10: an uninstall event leaves the fqbn of a live selection unchanged.
C10_UninstallKeepsLiveSelection ==
  [][ \A item \in Packages :
        ( PlatformUninstalledWith(item) /\ LiveSelection )
        => boardsConfig'.selectedBoard.fqbn = boardsConfig.selectedBoard.fqbn ]_vars

\* The uninstalled package has a board with the selected board's name and fqbn.
UninstallMatches(item) ==
  /\ boardsConfig.selectedBoard # NoBoard
  /\ boardsConfig.selectedBoard.fqbn # Undef
  /\ \E b \in BoardsNamed(item, boardsConfig.selectedBoard.name) :
       b.fqbn = boardsConfig.selectedBoard.fqbn

\* The selection is a recognized, selected available board: the selected
\* board is such an entry itself, or availableBoards has one with its name
\* and fqbn.
RecognizedSelected ==
  \/ /\ AvailableBoardIs(boardsConfig.selectedBoard)
     /\ boardsConfig.selectedBoard.state = "recognized"
     /\ boardsConfig.selectedBoard.selected = "true"
  \/ \E i \in Positions :
       /\ availableBoards[i].state = "recognized"
       /\ availableBoards[i].selected = "true"
       /\ availableBoards[i].name = boardsConfig.selectedBoard.name
       /\ availableBoards[i].fqbn = boardsConfig.selectedBoard.fqbn

InPass(task) == task.pc \in {"read", "after"}

\* Steps that complete an awaited call or take an event keep the place of
\* every task in tasks; the callback behind a pass removes its task.
KeepsTaskOrder == last'.op \notin {"notify", "tryReconnect"}

Calls == 1..Len(waits)

\* C13: a call resolves when its board is in availableBoards at the call or
\* in a later changed list; with a positive timeout and no board before the
\* timer fires it is rejected; without a positive timeout it is never
\* rejected, and a pending call resolves for no other reason than its board.
C13_WaitUntilAvailable ==
  [][ /\ last'.op = "waitUntilAvailable" =>
           /\ Len(waits') = Len(waits) + 1
           /\ waits'[Len(waits')].status =
                IF FindAvailable(waits'[Len(waits')].what, availableBoards)
                  THEN "resolved" ELSE "pending"
      /\ \A w \in Calls :
           /\ waits[w].status = "pending" =>
                /\ ( /\ "availableBoards" \in
                          {last'.fired[i] : i \in 1..Len(last'.fired)}
                     /\ FindAvailable(waits[w].what, availableBoards') )
                   => waits'[w].status = "resolved"
                /\ ( last'.op = "timeout" /\ waits'[w].timer # waits[w].timer )
                   => waits'[w].status = "rejected"
                /\ waits'[w].status = "resolved"
                   => FindAvailable(waits[w].what, availableBoards')
                /\ waits'[w].status = "rejected"
                   => /\ waits[w].timeout # None
                      /\ waits[w].timeout[1] > 0
                      /\ last'.op = "timeout"
           /\ waits[w].status # "pending" => waits'[w].status = waits[w].status ]_vars

\* A call without timeout for the Uno on COM10 was resolved by the first
\* discovery update, which changed the list to one with that board.
C13_Witness ==
  /\ last.op = "attachedBoardsChanged"
  /\ events = 1
  /\ "availableBoards" \in {last.fired[i] : i \in 1..Len(last.fired)}
  /\ \E w \in Calls :
       /\ waits[w].what = AttachedBoard("Uno", UnoFqbn, Serial10)
       /\ waits[w].timeout = None
       /\ waits[w].status = "resolved"
       /\ FindAvailable(waits[w].what, availableBoards)

\* C14: a settled call holds no subscription on the available-boards-changed
\* channel and no live timer.
C14_NoLeakAfterSettling ==
  \A w \in Calls :
    waits[w].status # "pending" =>
      /\ ~ waits[w].subscribed
      /\ waits[w].timer # "armed"

(***************************************************************************)
(* Claims on canVerify and canUploadTo, under SpecCan.                     *)
(***************************************************************************)
EngineUnchanged ==
  UNCHANGED << boardsConfig, latestBoardsConfig, latestValidBoardsConfig,
               attachedBoards, availablePorts, availableBoards, storage,
               tasks, waits, reconciled >>

HasBoard(config) == config.selectedBoard # NoBoard

HasPort(config) == config.selectedPort # NoPort

HasFqbn(config) == config.selectedBoard.fqbn # Undef /\ config.selectedBoard.fqbn # ""

\* C15: canVerify tells whether the config has a board, canUploadTo whether
\* it has a board, a port and a non-empty fqbn; neither changes the engine;
\* a silent call warns of nothing; a canUploadTo that is not silent and says
\* no to a config with a board gives one warning, of the missing port if the
\* port is missing, else of the missing fqbn.
C15_CanVerifyCanUploadTo ==
  [][ \A config \in CanConfigs, silent \in BOOLEAN :
        /\ CanVerifyCalledWith(Some(config), silent) =>
             /\ last'.result = BoolStr(HasBoard(config))
             /\ EngineUnchanged
             /\ silent => last'.fired = << >>
        /\ CanUploadToCalledWith(Some(config), silent) =>
             /\ last'.result =
                  BoolStr(HasBoard(config) /\ HasPort(config) /\ HasFqbn(config))
             /\ EngineUnchanged
             /\ silent => last'.fired = << >>
             /\ ( ~ silent /\ HasBoard(config) /\ last'.result = "false" ) =>
                  last'.fired =
                    IF ~ HasPort(config) THEN << "warn:noPortsSelected" >>
                                         ELSE << "warn:noFQBN" >> ]_vars

\* canUploadTo said no and warned of the missing port.
C15_Witness ==
  /\ last.op = "canUploadTo"
  /\ last.result = "false"
  /\ last.fired = << "warn:noPortsSelected" >>

(***************************************************************************)
(* Further claims on the engine, under Spec.                               *)
(***************************************************************************)
\* The step in which loadState gets the stored latest configuration, with
\* fromUrl encoded in the launch URL.
LoadLatestStep(fromUrl) ==
  \E t \in 1..Len(tasks) :
    /\ tasks[t].pc = "loadLatest"
    /\ Becomes(LoadLatestCompleted(Engine, t, fromUrl), "loadLatest")

\* What loadState is to adopt once the stored valid configuration is out:
\* the stored latest one, else the one of the URL, else nothing.
FallbackAdopted(fromUrl) ==
  boardsConfig' = IF storage.latest # None THEN storage.latest[1]
                  ELSE IF fromUrl # None THEN fromUrl[1]
                  ELSE boardsConfig

\* C16: loadState adopts the stored valid configuration if it is uploadable;
\* otherwise, be it absent or not uploadable, the stored latest one if there
\* is one; otherwise the one of the launch URL if there is one; otherwise the
\* configuration stays as it is.
C16_RestorePriority ==
  [][ /\ ( last'.op = "loadValid" /\ storage.valid # None ) =>
           IF canUploadTo(storage.valid[1])
             THEN boardsConfig' = storage.valid[1]
             ELSE \E fromUrl \in UrlConfigs : FallbackAdopted(fromUrl)
      /\ \A fromUrl \in UrlConfigs :
           LoadLatestStep(fromUrl) => FallbackAdopted(fromUrl) ]_vars

(***************************************************************************)
(* Further claims on the output of a pass, under SpecPass.                 *)
(***************************************************************************)
\* The protocol classes of the order: serial, network, any other protocol
\* (an entry without port is of no serial and no network protocol).
ClassRank(entry) ==
  IF entry.port.protocol = "serial" THEN 0
  ELSE IF entry.port.protocol = "network" THEN 1
  ELSE 2

\* left stands before right in the order by class, then state, then address.
OrderedBefore(left, right) ==
  \/ ClassRank(left) < ClassRank(right)
  \/ /\ ClassRank(left) = ClassRank(right)
     /\ StateRank(left.state) < StateRank(right.state)
  \/ /\ ClassRank(left) = ClassRank(right)
     /\ left.state = right.state
     /\ naturalCompare(left.port.address, right.port.address) < 0

Entries(list) == {list[i] : i \in 1..Len(list)}

\* The comparator is antisymmetric and transitive on the entries of list.
ComparesAsOrder(list) ==
  /\ \A a, b \in Entries(list) :
       Sign(AvailableBoardCompare(a, b)) = 0 - Sign(AvailableBoardCompare(b, a))
  /\ \A a, b, c \in Entries(list) :
       ( AvailableBoardCompare(a, b) <= 0 /\ AvailableBoardCompare(b, c) <= 0 )
         => AvailableBoardCompare(a, c) <= 0

\* C17: the list a pass derives is in the order serial, network, other
\* protocols; within a class recognized, guessed, incomplete; then by natural
\* comparison of the address; and the comparator is an order on its entries.
C17_SortedByTotalOrder ==
  PassDone =>
    /\ \A i, j \in 1..Len(derived) :
         i < j => ~ OrderedBefore(derived[j], derived[i])
    /\ ComparesAsOrder(derived)

(***************************************************************************)
(* Claims on the start of a pass, under Spec.                              *)
(***************************************************************************)
\* The steps in which a pass starts: a discovery event, the discovery
\* queries of the startup, the settling of the config writes of a set.
StartsPass == last'.op \in {"attachedBoardsChanged", "hydrate", "saveConfigs"}

\* The tasks of ts that await a write to the store.
AwaitsWrite(task) == task.pc \in {"saveKey", "saveCfgs"}

\* How often the step notified "configuration changed".
ConfigNotifications(step) == {i \in 1..Len(step.fired) : step.fired[i] = "boardsConfig"}

\* C18: a pass that starts with a selected port that is not among the
\* available ports (same address and protocol) clears the port and keeps the
\* board, notifies the cleared configuration once, leaves the latest valid
\* configuration alone and starts no pass and no write to the store; a pass
\* that starts with the selected port present, or with none, leaves the
\* configuration alone and does not notify it.
C18_ClearsGonePort ==
  [][ StartsPass =>
        /\ Len(tasks') = Len(tasks) + (IF last'.op = "attachedBoardsChanged" THEN 1 ELSE 0)
        /\ \A t \in 1..Len(tasks') :
             AwaitsWrite(tasks'[t]) => t <= Len(tasks) /\ tasks'[t] = tasks[t]
        /\ latestValidBoardsConfig' = latestValidBoardsConfig
        /\ IF SelectedPortGone(boardsConfig, availablePorts')
             THEN /\ boardsConfig' = MkConfig(boardsConfig.selectedBoard, NoPort)
                  /\ last'.payload = << boardsConfig' >>
                  /\ \E i \in 1..Len(last'.fired) : ConfigNotifications(last') = {i}
             ELSE /\ boardsConfig' = boardsConfig
                  /\ ConfigNotifications(last') = {} ]_vars

\* A discovery event reported no port while the Uno was selected on a port:
\* the pass cleared the port and notified the configuration.
C18_Witness ==
  /\ last.op = "attachedBoardsChanged"
  /\ availablePorts = << >>
  /\ boardsConfig.selectedBoard.name = "Uno"
  /\ boardsConfig.selectedPort = NoPort
  /\ last.payload = << boardsConfig >>
  /\ latestBoardsConfig = Some(boardsConfig)
  /\ latestValidBoardsConfig # None
  /\ latestValidBoardsConfig[1].selectedPort # NoPort

(***************************************************************************)
(* Claims on the candidate ports of a pass, under SpecPass.                *)
(***************************************************************************)
\* The entry the pass injected for the selected board: the only incomplete
\* entry that is selected (an Unknown entry has no selected flag).
IsInjected(entry) == entry.state = "incomplete" /\ entry.selected = "true"

\* The attached boards that occupy the address.
AttachedOn(address) ==
  {i \in 1..Len(attachedBoards) :
     attachedBoards[i].port # NoPort /\ attachedBoards[i].port.address = address}

\* C19: every serial port among the available ports has an entry (unless the
\* injected entry took its place); an entry of a non-serial port is there
\* only when an attached board occupies its address; and every entry of a
\* port whose address an attached board occupies is recognized with that
\* board's name and fqbn, so every entry of a non-serial port is recognized.
C19_CandidatesAndRecognition ==
  PassDone =>
    /\ \A p \in 1..Len(availablePorts) :
         availablePorts[p].protocol = "serial" =>
           \/ \E i \in 1..Len(derived) : derived[i].port = availablePorts[p]
           \/ \E i \in 1..Len(derived) :
                /\ IsInjected(derived[i])
                /\ boardsConfig.selectedPort.address = availablePorts[p].address
    /\ \A i \in 1..Len(derived) :
         ~ IsInjected(derived[i]) =>
           /\ derived[i].port.protocol # "serial" =>
                AttachedOn(derived[i].port.address) # {}
           /\ AttachedOn(derived[i].port.address) # {} =>
                /\ derived[i].state = "recognized"
                /\ \E a \in AttachedOn(derived[i].port.address) :
                     /\ derived[i].name = attachedBoards[a].name
                     /\ derived[i].fqbn = attachedBoards[a].fqbn
           /\ derived[i].port.protocol # "serial" => derived[i].state = "recognized"

(***************************************************************************)
(* Claims on the remembered boards, under SpecRemember.                    *)
(***************************************************************************)
\* The entry is as the claim has it for a candidate port without attached
\* board: guessed with the remembered board's name and fqbn, or, with
\* nothing remembered, incomplete, named Unknown and without fqbn.
ResolvedFromMemory(entry, remembered) ==
  IF remembered # None
    THEN /\ entry.state = "guessed"
         /\ entry.name = remembered[1].name
         /\ entry.fqbn = remembered[1].fqbn
    ELSE /\ entry.state = "incomplete"
         /\ entry.name = "Unknown"
         /\ entry.fqbn = Undef

\* The step resolved boardPort for task t to an entry that is as the claim
\* has it: the entry is the task's newest one, or, when the step finished
\* the pass, it is in the derived list unless the injected entry replaced it.
ResolvedAsRemembered(t, boardPort, remembered) ==
  IF tasks'[t].pc = "read"
    THEN ResolvedFromMemory(tasks'[t].entries[Len(tasks[t].entries) + 1], remembered)
    ELSE \/ \E i \in 1..Len(derived') :
              /\ derived'[i].port = boardPort
              /\ ~ IsInjected(derived'[i])
              /\ ResolvedFromMemory(derived'[i], remembered)
         \/ \E i \in 1..Len(derived') :
              /\ IsInjected(derived'[i])
              /\ derived'[i].port.address = boardPort.address

\* C20: a set to a board and a port starts the write of the board under the
\* port's address; the write, once complete, is what the store remembers for
\* that address until the next write to it completes; and a pass resolves a
\* candidate port without attached board from what the store remembers for
\* the port's address, whatever the port's protocol: guessed with the
\* remembered board's name and fqbn, or incomplete Unknown without fqbn.
C20_RememberedBoardRoundTrip ==
  [][ /\ ( /\ last'.op = "setBoardsConfig"
           /\ boardsConfig'.selectedBoard # NoBoard
           /\ boardsConfig'.selectedPort # NoPort ) =>
           /\ tasks'[Len(tasks')].pc = "saveKey"
           /\ tasks'[Len(tasks')].key = boardsConfig'.selectedPort.address
           /\ tasks'[Len(tasks')].val = boardsConfig'.selectedBoard
      /\ \A a \in Addresses :
           storage'.lastSelected[a] # storage.lastSelected[a] =>
             \E t \in 1..Len(tasks) :
               /\ tasks[t].pc = "saveKey"
               /\ tasks'[t].pc = "saveCfgs"
               /\ tasks[t].key = a
               /\ storage'.lastSelected[a] = Some(tasks[t].val)
      /\ \A t \in 1..Len(tasks) :
           ( tasks[t].pc = "saveKey" /\ last'.op = "saveKey" /\ tasks'[t] # tasks[t] ) =>
             storage'.lastSelected[tasks[t].key] = Some(tasks[t].val)
      /\ last'.op = "read" =>
           \A t \in 1..Len(tasks) :
             ( tasks[t].pc = "read" /\ tasks'[t] # tasks[t] ) =>
               LET boardPort == tasks[t].ports[Len(tasks[t].entries) + 1]
               IN ( ~ \E i \in 1..Len(tasks[t].attached) :
                        PortSameAs(boardPort, tasks[t].attached[i].port) )
                    => ResolvedAsRemembered(t, boardPort,
                         storage.lastSelected[boardPort.address]) ]_vars

\* The Nano was set on network/COM5 only, its write completed, and a later
\* pass resolved serial/COM5 to a guessed Nano.
C20_Witness ==
  /\ last.op = "read"
  /\ storage.lastSelected["COM5"] = Some(NanoBoard)
  /\ \E i \in 1..Len(derived) :
       /\ derived[i].port = Serial5
       /\ derived[i].state = "guessed"
       /\ derived[i].name = "Nano"
       /\ derived[i].fqbn = NanoFqbn
  /\ \E i \in 1..Len(derived) :
       /\ derived[i].port = Serial10
       /\ derived[i].state = "incomplete"
       /\ derived[i].name = "Unknown"

(***************************************************************************)
(* Claims on repeated passes, under SpecRepeat.                            *)
(***************************************************************************)
Notified(step, emitter) == {i \in 1..Len(step.fired) : step.fired[i] = emitter}

\* The two lists differ as the claim has it: in length, or at some position
\* in the fqbn, the port's protocol, the state, the port's address or the
\* selected flag.
ListsDiffer(new, current) ==
  \/ Len(new) # Len(current)
  \/ \E i \in 1..Len(new) :
       \/ new[i].fqbn # current[i].fqbn
       \/ new[i].port.protocol # current[i].port.protocol
       \/ new[i].state # current[i].state
       \/ new[i].port.address # current[i].port.address
       \/ new[i].selected # current[i].selected

\* C21: a discovery event that repeats the attached boards and the ports of
\* the pass before it leaves availableBoards alone and notifies the ports
\* once and the boards not at all; and a pass notifies the boards exactly
\* when the derived list differs from the stored one in length or, at some
\* position, in fqbn, port protocol, state, port address or selected flag.
C21_NotifiesExactlyOnChange ==
  [][ last'.op = "discovery" =>
        /\ ( /\ events > 0
             /\ attachedBoards' = attachedBoards
             /\ availablePorts' = availablePorts ) =>
             /\ availableBoards' = availableBoards
             /\ Notified(last', "availableBoards") = {}
             /\ \E i \in 1..Len(last'.fired) : Notified(last', "availablePorts") = {i}
        /\ Notified(last', "availableBoards") # {}
             <=> ListsDiffer(derived', availableBoards) ]_vars

(***************************************************************************)
(* Claims on what follows a pass, under Spec.                              *)
(***************************************************************************)
\* The step runs the callback behind a finished pass.
AfterPassStep == last'.op \in {"notify", "tryReconnect"}

\* C22: the callback behind every finished pass, whatever started the pass,
\* makes a reconnect attempt.
C22_ReconnectAfterEveryPass ==
  [][ AfterPassStep => last'.reconnect # "no" ]_vars

(***************************************************************************)
(* Claims on the startup, under SpecStart.                                 *)
(***************************************************************************)
\* No discovery query and no load of the stored state before 'ready'.
NothingBeforeReady == appState' # "ready" => tasks' = << >>

\* A discovery event is processed only once the startup is past line 102.
EventsBehindHydration ==
  last'.op = "attachedBoardsChanged" =>
    \A t \in 1..Len(tasks) : ~ BeforeHydration(tasks[t])

\* The answer of the startup queries differs from the engine's attached
\* boards and ports only if an event wrote them after the queries answered;
\* the hydration does not overwrite what such an event wrote.
NewerEventNotOverwritten ==
  ( last'.op = "hydrate" /\ events > 0 ) =>
    /\ attachedBoards' = attachedBoards
    /\ availablePorts' = availablePorts

\* The reconciled signal resolves in the callback behind the startup pass,
\* after its reconnect attempt.
ReconciledAfterStartupPass ==
  ( reconciled' /\ ~ reconciled ) =>
    /\ last'.op = "tryReconnect"
    /\ last'.reconnect \notin {"no", "throw"}
    /\ \E t \in 1..Len(tasks) : tasks[t].kind = "start" /\ tasks[t].pc = "after"

\* C23: nothing is queried or loaded before the ready signal; discovery
\* events that arrive before the startup hydration is done are processed
\* after it, so that the hydration never overwrites the attached boards and
\* ports of an event newer than the answer of its queries; and the
\* reconciled signal resolves only after the startup pass and its reconnect
\* attempt.
C23_StartupGating ==
  [][ /\ NothingBeforeReady
      /\ EventsBehindHydration
      /\ NewerEventNotOverwritten
      /\ ReconciledAfterStartupPass ]_vars

\* C24: after a pass that ran to its end with nothing interleaved the stored
\* availableBoards is the list the pass derived, in every field of every
\* entry, the name included.
C24_StoredListIsDerivedList ==
  last.op = "discovery" => availableBoards = derived

(***************************************************************************)
(* Claims on the stored configurations, under SpecPersist.                 *)
(***************************************************************************)
\* C25: with no work in flight after a configuration was set, the store
\* holds the latest configuration and the latest valid configuration of the
\* engine, also after a pass cleared a selected port that was gone.
C25_StoreMirrorsLatestConfigs ==
  ( Quiescent /\ latestBoardsConfig # None ) =>
    /\ storage.latest = latestBoardsConfig
    /\ storage.valid = latestValidBoardsConfig

(***************************************************************************)
(* Claims on the restored configuration, under SpecStart.                  *)
(***************************************************************************)
\* The uploadable configuration among StoredValidConfigs.
PersistedValid == MkConfig(UnoOfPackage, Serial10)

\* The store held PersistedValid when the engine started.  Before the first
\* event the latest valid configuration comes from the store or from a
\* reconnect, which keeps its board, and the other stored configuration has
\* a board without fqbn.
RestoredPersistedValid ==
  /\ events = 0
  /\ latestValidBoardsConfig # None
  /\ latestValidBoardsConfig[1].selectedBoard = PersistedValid.selectedBoard

\* C26: the store held an uploadable latest valid configuration whose port
\* is among the ports the startup queries returned; once reconciled has
\* resolved and no work is in flight, the current configuration is that
\* configuration, port included.
C26_RestoredConfigKeepsPort ==
  ( /\ Quiescent
    /\ reconciled
    /\ RestoredPersistedValid
    /\ \E i \in 1..Len(availablePorts) : availablePorts[i] = PersistedValid.selectedPort )
  => boardsConfig = PersistedValid

====
